---- MODULE Spec2Model ----
(***************************************************************************)
(* Model of src/controllers/document_controller.py: the request handlers   *)
(* reprocess_to_pinecone (with download_document_file),                    *)
(* delete_document_route and upload_document, run as concurrent asyncio    *)
(* tasks over a shared metadata store, a shared vector index and the       *)
(* local temporary directory.  A step of the model is the code of one      *)
(* handler between two of its await points, together with the effect of    *)
(* the collaborator call it awaits.                                        *)
(***************************************************************************)
EXTENDS Integers, FiniteSets, Sequences, TLC

\* ------------------------------------------------------------------ bounds
MaxReq == 2
MaxChunks == 2
MaxGen == 2

\* the stored documents; the handlers share no state across document ids
Docs == {1}
Req == 1..MaxReq
\* the versions of the content a file_url can serve
Gens == 1..MaxGen
\* identity given to the record an upload request inserts (result.inserted_id)
InsertedId(r) == Cardinality(Docs) + r
\* file_extension of the stored documents: one the dispatch knows, one it does not
Exts == {"txt", "xyz"}
\* os.path.splitext(filename)[1].lower() of the uploaded files
UploadExts == {".txt", ".pdf"}
Seqs == 0..(MaxChunks - 1)

VARIABLES
  meta,     \* metadata store: document_id -> record, for the ids that have one
  content,  \* the version of the content the file_url of a document serves now
  index,    \* vector index: <<document_id, sequence_index>> -> generation, 0 = no chunk
  files,    \* temporary files on disk, named by the request that created them
  removed,  \* number of os.remove calls made on the temporary file of a request
  req       \* the requests: handler, position and local variables of each

vars == <<meta, content, index, files, removed, req>>

\* ------------------------------------------------------- collaborators
\* models.documents.get_document: the record, or nothing
HasDocument(d) == d \in DOMAIN meta

\* models.documents.delete_document: removes the record, TRUE iff there was one
delete_document(m, d) == [x \in (DOMAIN m) \ {d} |-> m[x]]

\* service.processors.service.delete_chunks: purge of every chunk of d
delete_chunks(ix, d) == [key \in DOMAIN ix |-> IF key[1] = d THEN 0 ELSE ix[key]]

add_chunk_appended(ix, d, i, g) ==
  LET free == {j \in Seqs : ix[<<d, j>>] = 0} IN
  IF free = {} THEN ix
  ELSE [ix EXCEPT ![<<d, CHOOSE j \in free : \A x \in free : j <= x>>] = g]
\* service.processors.service.add_document, one chunk of it: the write keyed
\* by document_id and sequence_index
add_chunk(ix, d, i, g) == [ix EXCEPT ![<<d, i>>] = g]

\* models.documents.add_doc_with_link: creates the record of a new identity
add_doc_with_link(m, id, ext) ==
  [x \in (DOMAIN m) \cup {id} |->
     IF x = id
     THEN [file_extension |-> ext, chunk_count |-> 0, user_id |-> "u",
           is_public |-> TRUE, filename |-> "f", file_url |-> id]
     ELSE m[x]]

\* process_pdf / process_docx / process_text_file: the number of chunks the
\* content of version g yields, the same whenever it is extracted
ChunkCount(g) == g % (MaxChunks + 1)

\* the sequence indexes at which the index ix holds a chunk of document d
ChunksIn(ix, d) == {i \in Seqs : ix[<<d, i>>] # 0}
Chunks(d) == ChunksIn(index, d)

\* ------------------------------------------------------------ handlers
\* a request slot before the request arrives.  ops is the history of the
\* calls the request has completed: download, the extractor, upsert, purge,
\* and of the call of delete_document it has made
Idle ==
  [kind |-> "none", doc |-> 0, pc |-> "idle", document |-> "unset",
   status_code |-> 0, file_ext |-> "", gen |-> 0, n |-> 0, k |-> 0,
   status |-> "none", message |-> "", count |-> 0, ops |-> {}]

\* what is left of a request when its handler is left: the outcome, the
\* message, what the download had learnt and the history of its calls; the
\* other locals are gone
Left(q, status, msg) ==
  [Idle EXCEPT !.kind = q.kind, !.doc = q.doc, !.pc = "done",
               !.document = q.document, !.status_code = q.status_code,
               !.status = status, !.message = msg, !.ops = q.ops]

\* the error record of the except clauses
Failed(q, msg) == Left(q, "error", msg)

ExtractorWithDefault(ext) ==
  CASE ext = "pdf" -> "process_pdf"
    [] ext \in {"docx", "doc"} -> "process_docx"
    [] OTHER -> "process_text_file"
\* the dispatch of reprocess_to_pinecone on file_ext
Extractor(ext) ==
  CASE ext = "pdf" -> "process_pdf"
    [] ext \in {"docx", "doc"} -> "process_docx"
    [] ext \in {"md", "txt"} -> "process_text_file"
    [] OTHER -> "unsupported"

StatusNotServerError(code) == code < 500
\* the status test of download_document_file
StatusOk(code) == code = 200

Init ==
  /\ meta \in [Docs -> [file_extension : Exts, chunk_count : {0}, user_id : {"u"},
                        is_public : {TRUE}, filename : {"f"}, file_url : Docs]]
  /\ \A d \in Docs : meta[d].file_url = d
  /\ content \in [Docs -> Gens]
  /\ index = [key \in Docs \X Seqs |-> 0]
  /\ files = {}
  /\ removed = [r \in Req |-> 0]
  /\ req = [r \in Req |-> Idle]

\* the file_url of d starts serving other content
ChangeContent(d) ==
  /\ \E g \in Gens \ {content[d]} : content' = [content EXCEPT ![d] = g]
  /\ UNCHANGED <<meta, index, files, removed, req>>

\* the requests take the slots in order
Free(r) == req[r].pc = "idle" /\ \A x \in Req : x < r => req[x].pc # "idle"

\* POST /document/pinecone/{document_id} arrives
reprocess_to_pinecone(r, d) ==
  /\ Free(r)
  /\ req' = [req EXCEPT ![r] = [Idle EXCEPT !.kind = "reprocess", !.doc = d,
                                            !.pc = "get_document"]]
  /\ UNCHANGED <<meta, content, index, files, removed>>

RemoveSharedPath(r) ==
  /\ files' = {}
  /\ removed' = [x \in Req |-> IF x \in files THEN removed[x] + 1 ELSE removed[x]]
\* the finally clause of reprocess_to_pinecone, and the guarded removal in the
\* except clause of upload_document: os.remove if os.path.exists
RemoveIfExists(r) ==
  /\ files' = files \ {r}
  /\ removed' = [removed EXCEPT ![r] = IF r \in files THEN @ + 1 ELSE @]

\* download_document_file: document = await get_document(document_id)
download_get_document(r) ==
  LET q == req[r] IN
  /\ q.kind = "reprocess" /\ q.pc = "get_document"
  /\ \/ req' = [req EXCEPT ![r] = Failed(q, "get_document raised")]
     \/ /\ ~HasDocument(q.doc)
        /\ req' = [req EXCEPT ![r] = Failed([q EXCEPT !.document = "none"],
                                            "Document not found")]
     \/ /\ HasDocument(q.doc)
        /\ req' = [req EXCEPT ![r] = [q EXCEPT !.pc = "stream", !.document = "found",
                                      !.file_ext = meta[q.doc].file_extension]]
  /\ UNCHANGED <<meta, content, index, files, removed>>

\* download_document_file: the GET is answered; on 200 the temporary file is
\* created (delete=False) before the first chunk of the body is awaited
download_stream(r) ==
  LET q == req[r] IN
  /\ q.kind = "reprocess" /\ q.pc = "stream"
  /\ \/ /\ req' = [req EXCEPT ![r] = Failed(q, "request raised")]
        /\ UNCHANGED files
     \/ \E code \in {200, 404} :
          IF StatusOk(code)
          THEN /\ files' = files \cup {r}
               /\ req' = [req EXCEPT ![r] = [q EXCEPT !.pc = "aiter_bytes",
                                             !.status_code = code,
                                             !.gen = content[q.doc]]]
          ELSE /\ req' = [req EXCEPT ![r] =
                            Failed([q EXCEPT !.status_code = code],
                                   "Failed to download file from URL")]
               /\ UNCHANGED files
  /\ UNCHANGED <<meta, content, index, removed>>

\* download_document_file: the body is written to the temporary file.  A stream
\* that ends early raises inside the with blocks, which close the file and
\* leave it on disk, and the exception reaches the outer except clause of
\* reprocess_to_pinecone, outside its try/finally.  When the download returns,
\* reprocess_to_pinecone runs on to the dispatch on file_ext: it awaits the
\* extractor, or raises ValueError inside the try/finally
download_aiter_bytes(r) ==
  LET q == req[r]
      got == [q EXCEPT !.ops = @ \cup {"download"}] IN
  /\ q.kind = "reprocess" /\ q.pc = "aiter_bytes"
  /\ \/ /\ req' = [req EXCEPT ![r] = Failed(q, "stream ended early")]
        /\ UNCHANGED <<files, removed>>
     \/ IF Extractor(q.file_ext) = "unsupported"
        THEN /\ req' = [req EXCEPT ![r] =
                          Failed(got, "Unsupported file type: " \o q.file_ext)]
             /\ RemoveIfExists(r)
        ELSE /\ req' = [req EXCEPT ![r] = [got EXCEPT !.pc = "process"]]
             /\ UNCHANGED <<files, removed>>
  /\ UNCHANGED <<meta, content, index>>

\* reprocess_to_pinecone: documents = await process_pdf / process_docx /
\* process_text_file (temp_file_path)
reprocess_process(r) ==
  LET q == req[r]
      ran == [q EXCEPT !.ops = @ \cup {Extractor(q.file_ext)}] IN
  /\ q.kind = "reprocess" /\ q.pc = "process"
  /\ \/ /\ req' = [req EXCEPT ![r] = [ran EXCEPT !.pc = "get_document2",
                                        !.n = ChunkCount(q.gen),
                                        !.count = ChunkCount(q.gen)]]
        /\ UNCHANGED <<files, removed>>
     \/ /\ req' = [req EXCEPT ![r] = Failed(ran, "extractor raised")]
        /\ RemoveIfExists(r)
  /\ UNCHANGED <<meta, content, index>>

\* reprocess_to_pinecone: document = await get_document(document_id); a missing
\* record makes document['user_id'] raise TypeError
reprocess_get_document(r) ==
  LET q == req[r] IN
  /\ q.kind = "reprocess" /\ q.pc = "get_document2"
  /\ \/ /\ req' = [req EXCEPT ![r] = Failed(q, "get_document raised")]
        /\ RemoveIfExists(r)
     \/ /\ ~HasDocument(q.doc)
        /\ req' = [req EXCEPT ![r] = Failed(q, "'NoneType' object is not subscriptable")]
        /\ RemoveIfExists(r)
     \/ /\ HasDocument(q.doc)
        /\ req' = [req EXCEPT ![r] = [q EXCEPT !.pc = "add_document"]]
        /\ UNCHANGED <<files, removed>>
  /\ UNCHANGED <<meta, content, index>>

\* the record reprocess_to_pinecone returns after add_document, with
\* len(documents) in its message; gen keeps which content the run had fetched
Reprocessed(q) ==
  [Left(q, "success", "Successfully reprocessed") EXCEPT !.count = q.count,
                                                         !.gen = q.gen]

add_document_error_swallowed(q) == Reprocessed(q)
\* add_document raised: the exception passes the finally clause and reaches the
\* outer except clause
add_document_error(q) == Failed(q, "add_document raised")

reprocess_add_document_renaming(r) ==
  LET q == req[r] IN
  /\ q.kind = "reprocess" /\ q.pc = "add_document"
  /\ \/ /\ q.k < q.n
        /\ index' = add_chunk(index, q.doc, q.k, q.gen)
        /\ req' = [req EXCEPT ![r] = [q EXCEPT !.k = @ + 1, !.ops = @ \cup {"upsert"}]]
        /\ UNCHANGED <<meta, files, removed>>
     \/ /\ req' = [req EXCEPT ![r] = add_document_error(q)]
        /\ RemoveIfExists(r)
        /\ UNCHANGED <<meta, index>>
     \/ /\ q.k = q.n
        /\ req' = [req EXCEPT ![r] = Reprocessed(q)]
        /\ RemoveIfExists(r)
        /\ meta' = IF HasDocument(q.doc)
                   THEN [meta EXCEPT ![q.doc].filename = "tmp"] ELSE meta
        /\ UNCHANGED index
  /\ UNCHANGED content
\* reprocess_to_pinecone: await add_document(documents, ...): it writes the
\* chunks one by one and may raise after any number of them
reprocess_add_document(r) ==
  LET q == req[r] IN
  /\ q.kind = "reprocess" /\ q.pc = "add_document"
  /\ \/ /\ q.k < q.n
        /\ index' = add_chunk(index, q.doc, q.k, q.gen)
        /\ req' = [req EXCEPT ![r] = [q EXCEPT !.k = @ + 1, !.ops = @ \cup {"upsert"}]]
        /\ UNCHANGED <<files, removed>>
     \/ /\ req' = [req EXCEPT ![r] = add_document_error(q)]
        /\ RemoveIfExists(r)
        /\ UNCHANGED index
     \/ /\ q.k = q.n
        /\ req' = [req EXCEPT ![r] = Reprocessed(q)]
        /\ RemoveIfExists(r)
        /\ UNCHANGED index
  /\ UNCHANGED <<meta, content>>

\* DELETE /document/{document_id} arrives
delete_document_route(r, d) ==
  /\ Free(r)
  /\ req' = [req EXCEPT ![r] = [Idle EXCEPT !.kind = "delete", !.doc = d,
                                            !.pc = "delete_chunks"]]
  /\ UNCHANGED <<meta, content, index, files, removed>>

delete_purge_unchecked(r) ==
  LET q == req[r] IN
  /\ q.kind = "delete" /\ q.pc = "delete_chunks"
  /\ \/ /\ index' = delete_chunks(index, q.doc)
        /\ req' = [req EXCEPT ![r] = [q EXCEPT !.pc = "delete_document",
                                      !.count = Cardinality(Chunks(q.doc)),
                                      !.ops = @ \cup {"purge"}]]
     \/ /\ req' = [req EXCEPT ![r] = [q EXCEPT !.pc = "delete_document"]]
        /\ UNCHANGED index
  /\ UNCHANGED <<meta, content, files, removed>>
\* delete_document_route: await delete_chunks(document_id); count keeps how
\* many chunks the purge removed
delete_purge(r) ==
  LET q == req[r] IN
  /\ q.kind = "delete" /\ q.pc = "delete_chunks"
  /\ \/ /\ index' = delete_chunks(index, q.doc)
        /\ req' = [req EXCEPT ![r] = [q EXCEPT !.pc = "delete_document",
                                      !.count = Cardinality(Chunks(q.doc)),
                                      !.ops = @ \cup {"purge"}]]
     \/ /\ req' = [req EXCEPT ![r] = Failed(q, "delete_chunks raised")]
        /\ UNCHANGED index
  /\ UNCHANGED <<meta, content, files, removed>>

\* delete_document_route: success = await delete_document(document_id)
delete_record(r) ==
  LET q == [req[r] EXCEPT !.ops = @ \cup {"delete_document"}] IN
  /\ q.kind = "delete" /\ q.pc = "delete_document"
  /\ \/ /\ req' = [req EXCEPT ![r] = Failed(q, "delete_document raised")]
        /\ UNCHANGED meta
     \/ /\ ~HasDocument(q.doc)
        /\ req' = [req EXCEPT ![r] = Failed(q, "Document not found")]
        /\ UNCHANGED meta
     \/ /\ HasDocument(q.doc)
        /\ meta' = delete_document(meta, q.doc)
        /\ req' = [req EXCEPT ![r] =
                     Left(q, "success", "Document and its chunks deleted successfully")]
  /\ UNCHANGED <<content, index, files, removed>>

upload_except_unguarded(r, q, bound, msg) ==
  IF bound
  THEN /\ req' = [req EXCEPT ![r] = Failed(q, msg)]
       /\ files' = files \ {r}
       /\ removed' = [removed EXCEPT ![r] = @ + 1]
  ELSE /\ req' = [req EXCEPT ![r] = Left(q, "raised", "UnboundLocalError")]
       /\ UNCHANGED <<files, removed>>
\* the except clause of upload_document: os.path.exists(temp_file_path) reads a
\* local that is unbound when the failure came before line 251, and then
\* UnboundLocalError leaves the handler
upload_except(r, q, bound, msg) ==
  IF bound
  THEN /\ req' = [req EXCEPT ![r] = Failed(q, msg)]
       /\ RemoveIfExists(r)
  ELSE /\ req' = [req EXCEPT ![r] = Left(q, "raised", "UnboundLocalError")]
       /\ UNCHANGED <<files, removed>>

\* POST /upload arrives: the code up to await file.read(); NamedTemporaryFile
\* creates the file, or raises
upload_document(r, ext) ==
  LET q == [Idle EXCEPT !.kind = "upload", !.doc = InsertedId(r), !.file_ext = ext] IN
  /\ Free(r)
  /\ \/ /\ files' = files \cup {r}
        /\ req' = [req EXCEPT ![r] = [q EXCEPT !.pc = "file_read"]]
        /\ UNCHANGED removed
     \/ upload_except(r, q, FALSE, "NamedTemporaryFile raised")
  /\ UNCHANGED <<meta, content, index>>

\* upload_document: content = await file.read(); tmp.write(content)
upload_file_read(r) ==
  LET q == req[r] IN
  /\ q.kind = "upload" /\ q.pc = "file_read"
  /\ \/ /\ req' = [req EXCEPT ![r] = [q EXCEPT !.pc = "add_doc_with_link"]]
        /\ UNCHANGED <<files, removed>>
     \/ upload_except(r, q, TRUE, "read raised")
  /\ UNCHANGED <<meta, content, index>>

\* upload_document: result = await add_doc_with_link(...); os.remove(temp_file_path)
upload_add_doc_with_link(r) ==
  LET q == req[r] IN
  /\ q.kind = "upload" /\ q.pc = "add_doc_with_link"
  /\ \/ /\ meta' = add_doc_with_link(meta, q.doc, q.file_ext)
        /\ req' = [req EXCEPT ![r] = [q EXCEPT !.pc = "get_document_new"]]
        /\ files' = files \ {r}
        /\ removed' = [removed EXCEPT ![r] = @ + 1]
     \/ /\ upload_except(r, q, TRUE, "add_doc_with_link raised")
        /\ UNCHANGED meta
  /\ UNCHANGED <<content, index>>

\* upload_document: document = await get_document(str(result.inserted_id))
upload_get_document(r) ==
  LET q == req[r] IN
  /\ q.kind = "upload" /\ q.pc = "get_document_new"
  /\ \/ /\ req' = [req EXCEPT ![r] = Left(q, "success", "File uploaded successfully")]
        /\ UNCHANGED <<files, removed>>
     \/ upload_except(r, q, TRUE, "get_document raised")
  /\ UNCHANGED <<meta, content, index>>

InFlight(r) == req[r].pc \notin {"idle", "done"}

InFinallyUpToExtractor(q) ==
  q.kind = "reprocess" /\ q.pc \in {"process", "get_document2"}
\* positions inside the try/finally of reprocess_to_pinecone
InFinally(q) ==
  q.kind = "reprocess" /\ q.pc \in {"process", "get_document2", "add_document"}

\* the task of a request is cancelled at its await: CancelledError is not an
\* Exception, so only a finally clause runs
Cancel(r) ==
  LET q == req[r] IN
  /\ InFlight(r)
  /\ req' = [req EXCEPT ![r] = Left(q, "cancelled", "")]
  /\ IF InFinally(q) THEN RemoveIfExists(r) ELSE UNCHANGED <<files, removed>>
  /\ UNCHANGED <<meta, content, index>>

\* the process dies: no handler runs any further code
Crash ==
  /\ \E r \in Req : InFlight(r)
  /\ req' = [r \in Req |-> IF InFlight(r) THEN Left(req[r], "crashed", "") ELSE req[r]]
  /\ UNCHANGED <<meta, content, index, files, removed>>

\* reprocess and delete requests for the stored documents, in any interleaving
Next ==
  \/ \E d \in Docs : ChangeContent(d)
  \/ \E r \in Req, d \in Docs : reprocess_to_pinecone(r, d)
  \/ \E r \in Req : download_get_document(r)
  \/ \E r \in Req : download_stream(r)
  \/ \E r \in Req : download_aiter_bytes(r)
  \/ \E r \in Req : reprocess_process(r)
  \/ \E r \in Req : reprocess_get_document(r)
  \/ \E r \in Req : reprocess_add_document(r)
  \/ \E r \in Req, d \in Docs : delete_document_route(r, d)
  \/ \E r \in Req : delete_purge(r)
  \/ \E r \in Req : delete_record(r)
  \/ \E r \in Req : Cancel(r)
  \/ Crash

Spec == Init /\ [][Next]_vars

\* the same handlers when the requests arrive one after the other: a request
\* arrives only when no other is in flight
NoneInFlight == \A r \in Req : ~InFlight(r)

NextSerial ==
  \/ \E d \in Docs : ChangeContent(d)
  \/ \E r \in Req, d \in Docs : NoneInFlight /\ reprocess_to_pinecone(r, d)
  \/ \E r \in Req : download_get_document(r)
  \/ \E r \in Req : download_stream(r)
  \/ \E r \in Req : download_aiter_bytes(r)
  \/ \E r \in Req : reprocess_process(r)
  \/ \E r \in Req : reprocess_get_document(r)
  \/ \E r \in Req : reprocess_add_document(r)
  \/ \E r \in Req, d \in Docs : NoneInFlight /\ delete_document_route(r, d)
  \/ \E r \in Req : delete_purge(r)
  \/ \E r \in Req : delete_record(r)
  \/ \E r \in Req : Cancel(r)
  \/ Crash

SpecSerial == Init /\ [][NextSerial]_vars

\* upload requests, which create records of new identities, in any interleaving
NextUpload ==
  \/ \E r \in Req, ext \in UploadExts : upload_document(r, ext)
  \/ \E r \in Req : upload_file_read(r)
  \/ \E r \in Req : upload_add_doc_with_link(r)
  \/ \E r \in Req : upload_get_document(r)
  \/ \E r \in Req : Cancel(r)
  \/ Crash

SpecUpload == Init /\ [][NextUpload]_vars

\* two stored documents, each with content of its own, and reprocess requests
\* for them in any interleaving
TwoDocs == {1, 2}

InitTwoDocs ==
  /\ meta \in [TwoDocs -> [file_extension : Exts, chunk_count : {0}, user_id : {"u"},
                            is_public : {TRUE}, filename : {"f"}, file_url : TwoDocs]]
  /\ \A d \in TwoDocs : meta[d].file_url = d
  /\ content = [d \in TwoDocs |-> ((d - 1) % MaxGen) + 1]
  /\ index = [key \in TwoDocs \X Seqs |-> 0]
  /\ files = {}
  /\ removed = [r \in Req |-> 0]
  /\ req = [r \in Req |-> Idle]

NextTwoDocs ==
  \/ \E r \in Req, d \in TwoDocs : reprocess_to_pinecone(r, d)
  \/ \E r \in Req : download_get_document(r)
  \/ \E r \in Req : download_stream(r)
  \/ \E r \in Req : download_aiter_bytes(r)
  \/ \E r \in Req : reprocess_process(r)
  \/ \E r \in Req : reprocess_get_document(r)
  \/ \E r \in Req : reprocess_add_document(r)
  \/ \E r \in Req : Cancel(r)

SpecTwoDocs == InitTwoDocs /\ [][NextTwoDocs]_vars

\* the stored document has any of the extensions the dispatch names, one of
\* them in capitals, or one it does not name; the requests arrive one after
\* the other
DispatchExts == {"pdf", "docx", "doc", "md", "txt", "PDF", "xyz"}

InitDispatch ==
  /\ meta \in [Docs -> [file_extension : DispatchExts, chunk_count : {0},
                         user_id : {"u"}, is_public : {TRUE}, filename : {"f"},
                         file_url : Docs]]
  /\ \A d \in Docs : meta[d].file_url = d
  /\ content \in [Docs -> Gens]
  /\ index = [key \in Docs \X Seqs |-> 0]
  /\ files = {}
  /\ removed = [r \in Req |-> 0]
  /\ req = [r \in Req |-> Idle]

SpecDispatch == InitDispatch /\ [][NextSerial]_vars

\* ------------------------------------------------------------- properties
TypeOK ==
  /\ DOMAIN meta \subseteq 1..(Cardinality(Docs) + MaxReq)
  /\ \A key \in DOMAIN index : index[key] \in 0..MaxGen
  /\ files \subseteq Req
  /\ \A r \in Req : removed[r] \in 0..1 /\ req[r].k \in 0..req[r].n

\* the step in which request r leaves its handler
Ends(r) == req[r].pc # "done" /\ req'[r].pc = "done"
\* the step in which reprocess request r returns status success
ReprocessSucceeds(r) ==
  req[r].kind = "reprocess" /\ Ends(r) /\ req'[r].status = "success"

\* C1: full replacement.  When a reprocess of content that yields M chunks
\* returns success after an earlier successful sync of the same document
\* that wrote N # M chunks, the index holds exactly the M new chunks of the
\* document and none of the earlier ones.
C1_FullReplacement ==
  [][\A r, r0 \in Req :
       ( /\ ReprocessSucceeds(r)
         /\ r0 # r /\ req[r0].kind = "reprocess" /\ req[r0].status = "success"
         /\ req[r0].doc = req[r].doc /\ req[r0].count # req[r].n )
       => \A i \in Seqs :
            index'[<<req[r].doc, i>>] = IF i < req[r].n THEN req[r].gen ELSE 0]_vars

\* the purge/upsert span of a reprocess request: add_document has been called
\* and has not returned
InSpan(r) == req[r].kind = "reprocess" /\ req[r].pc = "add_document"

\* C2: two reprocess requests for one document never are inside their
\* purge/upsert spans together, and the index never holds chunks of two
\* generations of one document.
C2_NoInterleaving ==
  /\ \A r1, r2 \in Req :
       (r1 # r2 /\ InSpan(r1) /\ InSpan(r2)) => req[r1].doc # req[r2].doc
  /\ \A d \in Docs : \A i, j \in Chunks(d) : index[<<d, i>>] = index[<<d, j>>]

\* C3: when a reprocess request has ended (success, failure or cancellation),
\* the temporary file it created does not exist any more and was removed
\* exactly once (never, when it created none).
C3_TempReleasedOnce ==
  \A r \in Req :
    ( /\ req[r].kind = "reprocess" /\ req[r].pc = "done"
      /\ req[r].status \in {"success", "error", "cancelled"} )
    => /\ r \notin files
       /\ removed[r] = IF req[r].status_code = 200 THEN 1 ELSE 0

\* the step in which delete request r returns status success
DeleteSucceeds(r) ==
  req[r].kind = "delete" /\ Ends(r) /\ req'[r].status = "success"

\* C4: no orphaned chunks.  Whenever delete_document_route returns status
\* success for a document, the index holds no chunk of that document and
\* the metadata store holds no record of it.
C4_NoOrphanedChunks ==
  [][\A r \in Req :
       DeleteSucceeds(r)
       => /\ ChunksIn(index', req[r].doc) = {}
          /\ req[r].doc \notin DOMAIN meta']_vars

\* C5: a crash during a delete never leaves an orphaned metadata record: the
\* record of a document still present after the delete has purged the
\* chunks of the document from the index.
C5_CrashLeavesNoOrphanedRecord ==
  [][\A r \in Req :
       ( /\ req[r].kind = "delete" /\ Ends(r) /\ req'[r].status = "crashed"
         /\ "purge" \in req[r].ops /\ req[r].count > 0 )
       => ~(req[r].doc \in DOMAIN meta' /\ ChunksIn(index', req[r].doc) = {})]_vars

\* C6: partial-write safety.  When add_document fails after writing k of n
\* chunks (k < n), the reprocess request returns an error result, never
\* success, and no step of a reprocess request changes the metadata store,
\* chunk_count included.
C6_PartialWriteSafety ==
  [][\A r \in Req :
       req[r].kind = "reprocess"
       => /\ (req'[r] # req[r]) => (meta' = meta)
          /\ ( /\ InSpan(r) /\ Ends(r) /\ req[r].k < req[r].n
               /\ req'[r].status \notin {"cancelled", "crashed"} )
             => req'[r].status = "error"]_vars

C6_Witness ==
  \E r \in Req :
    /\ req[r].kind = "reprocess" /\ req[r].pc = "done" /\ req[r].status = "error"
    /\ req[r].message = "add_document raised" /\ "upsert" \in req[r].ops
    /\ \E g \in Gens :
         /\ ChunkCount(g) > 1
         /\ index[<<req[r].doc, 0>>] = g /\ index[<<req[r].doc, 1>>] = 0
    /\ HasDocument(req[r].doc) /\ meta[req[r].doc].chunk_count = 0

\* C7: whenever a reprocess request returns status success, chunk_count of
\* the metadata record of the document equals the number of chunks the
\* index holds for it, and the count reported to the caller is that number.
C7_CountUpdated ==
  [][\A r \in Req :
       ReprocessSucceeds(r)
       => /\ req[r].doc \in DOMAIN meta'
          /\ meta'[req[r].doc].chunk_count = Cardinality(ChunksIn(index', req[r].doc))
          /\ req'[r].count = Cardinality(ChunksIn(index', req[r].doc))]_vars

Supported == {"pdf", "docx", "doc", "md", "txt"}

\* the step in which download_document_file returns the path of the file
Downloaded(r) ==
  /\ req[r].kind = "reprocess"
  /\ "download" \notin req[r].ops /\ "download" \in req'[r].ops

\* C8: unsupported format rejection.  When the download of a document whose
\* stored file extension is none of pdf, docx, doc, md, txt has returned, the
\* request ends with an error result that names the extension, has called
\* no extractor and issued no purge and no upsert, leaves the index and
\* the metadata store as they were, and has removed its temporary file.
C8_UnsupportedRejected ==
  [][\A r \in Req :
       (Downloaded(r) /\ req[r].file_ext \notin Supported)
       => /\ req'[r].pc = "done" /\ req'[r].status = "error"
          /\ req'[r].message = "Unsupported file type: " \o req[r].file_ext
          /\ req'[r].ops = {"download"}
          /\ index' = index /\ meta' = meta
          /\ r \in files /\ r \notin files' /\ removed'[r] = 1]_vars

C8_Witness ==
  \E r \in Req :
    /\ req[r].kind = "reprocess" /\ req[r].pc = "done"
    /\ req[r].ops = {"download"} /\ req[r].status = "error"
    /\ req[r].message = "Unsupported file type: xyz"
    /\ r \notin files /\ removed[r] = 1

\* C9: a fetch failure is free of side effects.  A reprocess request whose
\* metadata lookup found no document, or whose download was answered with a
\* status other than 200, has ended with an error result, has run no
\* extractor, has issued no purge and no upsert, and has left no temporary
\* file.
C9_FetchFailureClean ==
  \A r \in Req :
    ( /\ req[r].kind = "reprocess"
      /\ \/ req[r].document = "none"
         \/ req[r].status_code \notin {0, 200} )
    => /\ req[r].pc = "done" /\ req[r].status = "error"
       /\ req[r].message \in {"Document not found", "Failed to download file from URL"}
       /\ req[r].ops = {}
       /\ r \notin files /\ removed[r] = 0

C9_Witness ==
  \E r \in Req :
    /\ req[r].kind = "reprocess" /\ req[r].pc = "done"
    /\ req[r].status_code = 404
    /\ req[r].message = "Failed to download file from URL"

C9_WitnessNotFound ==
  \E r \in Req :
    /\ req[r].kind = "reprocess" /\ req[r].pc = "done"
    /\ req[r].document = "none" /\ req[r].message = "Document not found"

\* C10: no exception leaves upload_document, reprocess_to_pinecone or
\* delete_document_route: whatever call or local step fails, the handler
\* returns a record with status error.
C10_NoExceptionEscapes ==
  \A r \in Req :
    (req[r].pc = "done" /\ req[r].status \notin {"cancelled", "crashed"})
    => req[r].status \in {"success", "error"}

\* C11: a reprocess request cancelled while download_document_file was
\* running (the download has not returned) leaves no temporary file behind
\* and has issued neither a purge nor an upsert on the index.
C11_CancelDuringFetchSafe ==
  \A r \in Req :
    ( /\ req[r].kind = "reprocess" /\ req[r].pc = "done"
      /\ req[r].status = "cancelled" /\ "download" \notin req[r].ops )
    => /\ r \notin files
       /\ req[r].ops \cap {"purge", "upsert"} = {}

\* C13: every reprocess request that has written a chunk to the index has
\* issued a purge of the chunks of its document before.
C13_PurgeBeforeUpsert ==
  \A r \in Req :
    (req[r].kind = "reprocess" /\ "upsert" \in req[r].ops)
    => "purge" \in req[r].ops

\* the steps of reprocess request r2 after its download, when it is the run
\* right after the successful run r1 of the same document and has fetched the
\* same content as r1
SecondRun(r1, r2) ==
  /\ r2 = r1 + 1
  /\ req[r1].kind = "reprocess" /\ req[r1].status = "success"
  /\ req[r2].kind = "reprocess" /\ req[r2].doc = req[r1].doc
  /\ req[r2].pc \in {"process", "get_document2", "add_document"}
  /\ req[r2].gen = req[r1].gen

FailsAlone(r) ==
  /\ Ends(r) /\ req'[r].status = "error"
  /\ \A x \in Req \ {r} : req'[x] = req[x]

\* C14: failure isolation between documents.  The step in which a reprocess
\* request for one document fails changes no chunk and no metadata record of
\* any other document, and neither the temporary file nor the state of any
\* other request; the steps of a request read nothing but what is its own,
\* so the other requests go on as if the failed one had not run.
C14_FailureIsolation ==
  [][\A r \in Req :
       FailsAlone(r)
       => /\ \A d \in TwoDocs \ {req[r].doc} :
               /\ \A i \in Seqs : index'[<<d, i>>] = index[<<d, i>>]
               /\ (d \in DOMAIN meta') = (d \in DOMAIN meta)
               /\ d \in DOMAIN meta => meta'[d] = meta[d]
               /\ content'[d] = content[d]
          /\ \A x \in Req \ {r} :
               /\ (x \in files') = (x \in files)
               /\ removed'[x] = removed[x]]_vars

\* a request has failed after its fetch while an earlier request for another
\* document is writing its chunks, its temporary file on disk
C14_Witness ==
  \E rA, rB \in Req :
    /\ rB < rA /\ req[rA].doc # req[rB].doc
    /\ req[rA].kind = "reprocess" /\ req[rA].status = "error"
    /\ "download" \in req[rA].ops
    /\ InSpan(rB) /\ req[rB].k > 0 /\ rB \in files
    /\ Chunks(req[rB].doc) = 0..(req[rB].k - 1)

\* the step is one of reprocess request r and of no other request
ReprocessStep(r) ==
  /\ req'[r] # req[r] /\ req'[r].kind = "reprocess"
  /\ \A x \in Req \ {r} : req'[x] = req[x]

\* the fields of a metadata record other than the derived count
Identity(rec) ==
  <<rec.filename, rec.file_extension, rec.user_id, rec.is_public, rec.file_url>>

\* C15: no step of a reprocess run, successful or failed, creates or deletes
\* a metadata record or changes the filename, file_extension, owner,
\* visibility or source URL of one.
C15_MetadataFrame ==
  [][\A r \in Req :
       ReprocessStep(r)
       => /\ DOMAIN meta' = DOMAIN meta
          /\ \A d \in DOMAIN meta : Identity(meta'[d]) = Identity(meta[d])]_vars

\* a successful and a failed reprocess run of a document whose record is as
\* it was
C15_Witness ==
  \E r1, r2 \in Req :
    /\ req[r1].kind = "reprocess" /\ req[r1].status = "success" /\ req[r1].count > 0
    /\ req[r2].kind = "reprocess" /\ req[r2].status = "error"
    /\ "download" \in req[r2].ops /\ req[r2].doc = req[r1].doc
    /\ HasDocument(req[r1].doc)
    /\ Identity(meta[req[r1].doc]) = <<"f", "txt", "u", TRUE, req[r1].doc>>

\* the next step of the handler of request x
Handler(x) ==
  \/ download_get_document(x) \/ download_stream(x) \/ download_aiter_bytes(x)
  \/ reprocess_process(x) \/ reprocess_get_document(x) \/ reprocess_add_document(x)
  \/ delete_purge(x) \/ delete_record(x)

\* reprocess request r was cancelled inside add_document, chunks written
CancelledInSpan(r) ==
  /\ req[r].kind = "reprocess" /\ req[r].status = "cancelled"
  /\ "upsert" \in req[r].ops

\* C16: a reprocess request cancelled during add_document ends without its
\* temporary file, removed once, and never reports success afterwards; and
\* it holds nothing a later request for the same document waits for: such a
\* request can arrive, and while in flight it always has its next step.
C16_CancelDuringWriteReleases ==
  [][\A r \in Req :
       /\ (InSpan(r) /\ Ends(r) /\ req'[r].status = "cancelled")
          => r \notin files' /\ removed'[r] = 1
       /\ CancelledInSpan(r)
          => /\ req'[r] = req[r]
             /\ \A x \in Req :
                  /\ Free(x) => ENABLED reprocess_to_pinecone(x, req[r].doc)
                  /\ (InFlight(x) /\ req[x].doc = req[r].doc)
                     => ENABLED Handler(x)]_vars

\* a request was cancelled inside add_document after it wrote a chunk, and a
\* later request for the same document has returned success
C16_Witness ==
  \E r, x \in Req :
    /\ r < x /\ CancelledInSpan(r) /\ r \notin files /\ removed[r] = 1
    /\ req[x].kind = "reprocess" /\ req[x].doc = req[r].doc
    /\ req[x].status = "success"

\* the lowercase form of the stored extensions
Lower(ext) == IF ext = "PDF" THEN "pdf" ELSE ext

\* the extraction each normalized extension selects
Extraction ==
  [e \in Supported |->
     CASE e = "pdf" -> "process_pdf"
       [] e \in {"docx", "doc"} -> "process_docx"
       [] e \in {"md", "txt"} -> "process_text_file"]

Extractors == {"process_pdf", "process_docx", "process_text_file"}

C18_DeleteRacingReprocess ==
  \A rd, rr \in Req :
    ( /\ req[rd].kind = "delete" /\ req[rd].status = "success"
      /\ req[rr].kind = "reprocess" /\ req[rr].pc = "done"
      /\ req[rr].doc = req[rd].doc )
    => Chunks(req[rd].doc) = {}

\* C19: delete_document_route calls delete_document only after delete_chunks
\* has returned normally.  When delete_chunks raises, the request ends in
\* status error with delete_document not called and the metadata store as it
\* was; and the request returns success only in the step in which
\* delete_document removes the record of the document.
C19_PurgeThenDeleteRecord ==
  [][\A r \in Req :
       /\ "delete_document" \in req'[r].ops => "purge" \in req'[r].ops
       /\ (req[r].kind = "delete" /\ req[r].pc = "delete_chunks" /\ Ends(r)
           /\ req'[r].status \notin {"cancelled", "crashed"})
          => /\ req'[r].status = "error"
             /\ "delete_document" \notin req'[r].ops
             /\ meta' = meta
       /\ DeleteSucceeds(r)
          => /\ "delete_document" \in req'[r].ops
             /\ req[r].doc \in DOMAIN meta /\ req[r].doc \notin DOMAIN meta']_vars

\* a delete has ended in the error of delete_chunks with the record of its
\* document in place, and a later delete of the document has returned success
C19_Witness ==
  \E r1, r2 \in Req :
    /\ r1 < r2 /\ req[r1].kind = "delete" /\ req[r2].kind = "delete"
    /\ req[r1].doc = req[r2].doc
    /\ req[r1].status = "error" /\ req[r1].message = "delete_chunks raised"
    /\ req[r1].ops = {}
    /\ req[r2].status = "success" /\ req[r2].ops = {"purge", "delete_document"}
    /\ ~HasDocument(req[r2].doc)

\* C20: when upload_document has returned, with success or with the error
\* of a failure after its temporary file was created (of file.read, of
\* add_doc_with_link or of the read-back get_document), the file does not
\* exist any more and was removed exactly once.
C20_UploadTempRemovedOnce ==
  \A r \in Req :
    ( /\ req[r].kind = "upload" /\ req[r].pc = "done"
      /\ req[r].status \in {"success", "error"} )
    => r \notin files /\ removed[r] = 1

\* an upload has failed in the read-back, after line 262 removed the file,
\* and another in add_doc_with_link, before it
C20_Witness ==
  \E r1, r2 \in Req :
    /\ req[r1].kind = "upload" /\ req[r1].message = "get_document raised"
    /\ req[r2].kind = "upload" /\ req[r2].message = "add_doc_with_link raised"
    /\ removed[r1] = 1 /\ removed[r2] = 1 /\ files = {}

====
